---------------------------- MODULE Spec2Model ----------------------------
(***************************************************************************)
(* A model of server.mjs, the OilInfo price server: the DynamoDB cache     *)
(* helpers, the Bangchak fetch + transform, the three derived views and    *)
(* the four request handlers, as interleaved asynchronous requests.        *)
(*                                                                         *)
(* Conventions.                                                            *)
(*  - A JavaScript string is a sequence of characters: ASCII characters    *)
(*    are one-character strings, a Thai character is the string "U+0Exx"   *)
(*    of its code point.                                                   *)
(*  - A JavaScript number that stands for money is an integer count of     *)
(*    thousandths (38.42 is 38420), so that the 0.003 drift of the         *)
(*    historical walk and the rounding of toFixed(2) are both exact.       *)
(*  - Math.random() is a stream: Random(seed, k) is the k-th draw of the   *)
(*    stream in the state `seed`, in thousandths of the unit interval.     *)
(*  - Time is in seconds since the server started.                         *)
(***************************************************************************)
EXTENDS Integers, Sequences, FiniteSets, TLC

VARIABLES
    now,        \* Date.now(), in seconds
    ticks,      \* how many times the clock has advanced (bounded)
    upstream,   \* the JSON document the Bangchak API currently serves
    storeUp,    \* whether docClient.send succeeds (TRUE) or rejects (FALSE)
    store,      \* the OilPricesCache table: cacheKey -> <<>> or <<Item>>
    req,        \* the requests in flight: slot -> record of locals
    resp,       \* the response sent last: <<>> or <<the locals of its request>>
    started     \* how many requests have been accepted (bounded)

vars == <<now, ticks, upstream, storeUp, store, req, resp, started>>

---------------------------------------------------------------------------
(* Bounds of the model *)

NumReq == 2         \* requests that can be in flight at once
MaxRequests == 2    \* requests accepted in one run
MaxTicks == 1       \* clock advances in one run
NumSeeds == 2       \* distinct states of the Math.random() stream
MaxRecords == 2     \* length of the provider's Data list (SpecPure)

---------------------------------------------------------------------------
(* Program constants *)

CACHE_DURATION_SECONDS == 3600
HISTORY_MAX_AGE == 21600
WORLD_MAX_AGE == 3600
HISTORY_TTL == 21600
WORLD_TTL == 3600
HISTORY_DAYS == 30

Keys == {"current_prices", "brand_comparison", "historical_prices", "world_prices"}
Endpoints == {"/prices", "/brands", "/history", "/world-prices"}

Grades ==
    {"gasoline95", "gasoline91", "gasohol95", "gasohol91",
     "e20", "e85", "dieselB7", "dieselB20"}

---------------------------------------------------------------------------
(* Strings *)

\* the letters String.prototype.toLowerCase changes in the model's alphabet
LowerOf ==
    "A" :> "a" @@ "B" :> "b" @@ "C" :> "c" @@ "D" :> "d" @@ "E" :> "e" @@
    "F" :> "f" @@ "G" :> "g" @@ "H" :> "h" @@ "I" :> "i" @@ "J" :> "j" @@
    "K" :> "k" @@ "L" :> "l" @@ "M" :> "m" @@ "N" :> "n" @@ "O" :> "o" @@
    "P" :> "p" @@ "Q" :> "q" @@ "R" :> "r" @@ "S" :> "s" @@ "T" :> "t" @@
    "U" :> "u" @@ "V" :> "v" @@ "W" :> "w" @@ "X" :> "x" @@ "Y" :> "y" @@
    "Z" :> "z"

\* String.prototype.toLowerCase on one character, then on a string
LowerChar(c) == IF c \in DOMAIN LowerOf THEN LowerOf[c] ELSE c

RECURSIVE toLowerCase(_)
toLowerCase(s) ==
    IF s = <<>> THEN <<>> ELSE <<LowerChar(Head(s))>> \o toLowerCase(Tail(s))

\* String.prototype.includes: needle occurs in hay as a contiguous substring
includes(hay, needle) ==
    \E i \in 0..(Len(hay) - Len(needle)) :
        \A j \in 1..Len(needle) : hay[i + j] = needle[j]

Digits == <<"0", "1", "2", "3", "4", "5", "6", "7", "8", "9">>
IsDigit(c) == \E i \in 1..Len(Digits) : Digits[i] = c
DigitValue(c) == (CHOOSE i \in 1..Len(Digits) : Digits[i] = c) - 1

RECURSIVE SkipSpaces(_)
SkipSpaces(s) ==
    IF s # <<>> /\ Head(s) = " " THEN SkipSpaces(Tail(s)) ELSE s

RECURSIVE DigitsPrefix(_)
DigitsPrefix(s) ==
    IF s # <<>> /\ IsDigit(Head(s))
    THEN <<Head(s)>> \o DigitsPrefix(Tail(s))
    ELSE <<>>

RECURSIVE IntValue(_, _)
IntValue(ds, acc) ==
    IF ds = <<>> THEN acc ELSE IntValue(Tail(ds), 10 * acc + DigitValue(Head(ds)))

\* the fraction digits as thousandths (digits past the third are below the
\* model's resolution)
FracMilli(ds) ==
    LET d(i) == IF i <= Len(ds) THEN DigitValue(ds[i]) ELSE 0
    IN  100 * d(1) + 10 * d(2) + d(3)

NaN == [nan |-> TRUE, val |-> 0]
Num(v) == [nan |-> FALSE, val |-> v]

\* parseFloat: leading blanks, an optional sign, a decimal literal; what
\* follows the literal is ignored; NaN when there is no literal.
parseFloat(str) ==
    LET t    == SkipSpaces(str)
        neg  == t # <<>> /\ Head(t) = "-"
        u    == IF t # <<>> /\ Head(t) \in {"+", "-"} THEN Tail(t) ELSE t
        ip   == DigitsPrefix(u)
        rest == SubSeq(u, Len(ip) + 1, Len(u))
        fp   == IF rest # <<>> /\ Head(rest) = "." THEN DigitsPrefix(Tail(rest)) ELSE <<>>
        mag  == 1000 * IntValue(ip, 0) + FracMilli(fp)
    IN  IF ip = <<>> /\ fp = <<>>
        THEN NaN
        ELSE Num(IF neg THEN 0 - mag ELSE mag)

\* `x || 0` on a number: NaN and 0 are falsy
OrZero(x) == IF x.nan \/ x.val = 0 THEN 0 ELSE x.val

Str_undefined == <<"u", "n", "d", "e", "f", "i", "n", "e", "d">>

\* p.f when the record has the field, the string of `undefined` otherwise
FieldText(p, f) == IF f \in DOMAIN p THEN p[f] ELSE Str_undefined

\* `p.f && ...`: the field is present and not the empty string
Truthy(p, f) == f \in DOMAIN p /\ p[f] # <<>>

\* Number.prototype.toFixed(2) followed by parseFloat, on thousandths: the
\* nearest hundredth, the larger magnitude on a tie
toFixed2(x) ==
    LET r(m) == ((m + 5) \div 10) * 10
    IN  IF x < 0 THEN 0 - r(0 - x) ELSE r(x)

---------------------------------------------------------------------------
(* The keyword aliases of transformBangchakData, lines 198-205 *)

KW_Hi_Premium_97 == <<"H", "i", " ", "P", "r", "e", "m", "i", "u", "m", " ", "9", "7">>
KW_Premium_97 == <<"P", "r", "e", "m", "i", "u", "m", " ", "9", "7">>
KW_Gasoline_97 == <<"G", "a", "s", "o", "l", "i", "n", "e", " ", "9", "7">>
KW_Benzin_97 == <<"U+0E40", "U+0E1A", "U+0E19", "U+0E0B", "U+0E34", "U+0E19", " ", "9", "7">>
KW_Gasoline_91 == <<"G", "a", "s", "o", "l", "i", "n", "e", " ", "9", "1">>
KW_Benzin_91 == <<"U+0E40", "U+0E1A", "U+0E19", "U+0E0B", "U+0E34", "U+0E19", " ", "9", "1">>
KW_Gasohol_95 == <<"G", "a", "s", "o", "h", "o", "l", " ", "9", "5">>
KW_Kaesohol_95 == <<"U+0E41", "U+0E01", "U+0E4A", "U+0E2A", "U+0E42", "U+0E0B", "U+0E2E", "U+0E2D", "U+0E25", "U+0E4C", " ", "9", "5">>
KW_Gasohol_91 == <<"G", "a", "s", "o", "h", "o", "l", " ", "9", "1">>
KW_Kaesohol_91 == <<"U+0E41", "U+0E01", "U+0E4A", "U+0E2A", "U+0E42", "U+0E0B", "U+0E2E", "U+0E2D", "U+0E25", "U+0E4C", " ", "9", "1">>
KW_Gasohol_E20 == <<"G", "a", "s", "o", "h", "o", "l", " ", "E", "2", "0">>
KW_E20 == <<"E", "2", "0">>
KW_Ee_20 == <<"U+0E2D", "U+0E35", " ", "2", "0">>
KW_Gasohol_E85 == <<"G", "a", "s", "o", "h", "o", "l", " ", "E", "8", "5">>
KW_E85 == <<"E", "8", "5">>
KW_Ee_85 == <<"U+0E2D", "U+0E35", " ", "8", "5">>
KW_Hi_Diesel_B7 == <<"H", "i", " ", "D", "i", "e", "s", "e", "l", " ", "B", "7">>
KW_Diesel_B7 == <<"D", "i", "e", "s", "e", "l", " ", "B", "7">>
KW_Disel_B7 == <<"U+0E14", "U+0E35", "U+0E40", "U+0E0B", "U+0E25", " ", "B", "7">>
KW_Hi_Diesel_B20 == <<"H", "i", " ", "D", "i", "e", "s", "e", "l", " ", "B", "2", "0">>
KW_Diesel_B20 == <<"D", "i", "e", "s", "e", "l", " ", "B", "2", "0">>
KW_Disel_B20 == <<"U+0E14", "U+0E35", "U+0E40", "U+0E0B", "U+0E25", " ", "B", "2", "0">>

\* grade -> its aliases, in the order the source lists them
Keywords(grade) ==
    CASE grade = "gasoline95" -> <<KW_Hi_Premium_97, KW_Premium_97, KW_Gasoline_97, KW_Benzin_97>>
      [] grade = "gasoline91" -> <<KW_Gasoline_91, KW_Benzin_91>>
      [] grade = "gasohol95"  -> <<KW_Gasohol_95, KW_Kaesohol_95>>
      [] grade = "gasohol91"  -> <<KW_Gasohol_91, KW_Kaesohol_91>>
      [] grade = "e20"        -> <<KW_Gasohol_E20, KW_E20, KW_Ee_20>>
      [] grade = "e85"        -> <<KW_Gasohol_E85, KW_E85, KW_Ee_85>>
      [] grade = "dieselB7"   -> <<KW_Hi_Diesel_B7, KW_Diesel_B7, KW_Disel_B7>>
      [] grade = "dieselB20"  -> <<KW_Hi_Diesel_B20, KW_Diesel_B20, KW_Disel_B20>>

---------------------------------------------------------------------------
(* transformBangchakData *)

\* the predicate handed to products.find, line 182-185
Matches(p, keyword) ==
    \/ Truthy(p, "NameEN") /\ includes(toLowerCase(p.NameEN), toLowerCase(keyword))
    \/ Truthy(p, "NameTH") /\ includes(p.NameTH, keyword)

\* Array.prototype.find from index i on: the index of the first element the
\* predicate accepts, 0 when there is none
RECURSIVE find(_, _, _)
find(products, keyword, i) ==
    IF i > Len(products) THEN 0
    ELSE IF Matches(products[i], keyword) THEN i
    ELSE find(products, keyword, i + 1)

Quote(product) ==
    [price  |-> OrZero(parseFloat(FieldText(product, "Today"))),
     change |-> OrZero(parseFloat(FieldText(product, "Diff")))]

NoQuote == [price |-> 0, change |-> 0]

\* the `for (const keyword of keywords)` loop of findPrice, from keyword k on
RECURSIVE findPriceFrom(_, _, _)
findPriceFrom(products, keywords, k) ==
    IF k > Len(keywords) THEN NoQuote
    ELSE LET j == find(products, keywords[k], 1)
         IN  IF j # 0 THEN Quote(products[j])
             ELSE findPriceFrom(products, keywords, k + 1)

\* findPrice with the loops exchanged: the first record that any alias matches
RECURSIVE findPriceByRecordFrom(_, _, _)
findPriceByRecordFrom(products, keywords, j) ==
    IF j > Len(products) THEN NoQuote
    ELSE IF \E k \in 1..Len(keywords) : Matches(products[j], keywords[k])
         THEN Quote(products[j])
         ELSE findPriceByRecordFrom(products, keywords, j + 1)

findPriceByRecord(products, keywords) == findPriceByRecordFrom(products, keywords, 1)

findPrice(products, keywords) == findPriceFrom(products, keywords, 1)

\* new Date().toISOString() at time t, and a provider's LastUpdate text
ISOString(t) == [text |-> <<>>, iso |-> t]
ProviderText(s) == [text |-> s, iso |-> 0 - 1]

\* a function's outcome: a returned value or a thrown Error
Return(v) == [threw |-> FALSE, value |-> <<v>>]
Throw == [threw |-> TRUE, value |-> <<>>]

\* `!bangchakData || !bangchakData.Data`
InvalidStructure(bangchakData) == ~("Data" \in DOMAIN bangchakData)

transformBangchakData(bangchakData, t) ==
    IF InvalidStructure(bangchakData) THEN Throw
    ELSE LET products == bangchakData.Data
         IN Return(
            [gasoline95 |-> findPrice(products, Keywords("gasoline95")),
             gasoline91 |-> findPrice(products, Keywords("gasoline91")),
             gasohol95  |-> findPrice(products, Keywords("gasohol95")),
             gasohol91  |-> findPrice(products, Keywords("gasohol91")),
             e20        |-> findPrice(products, Keywords("e20")),
             e85        |-> findPrice(products, Keywords("e85")),
             dieselB7   |-> findPrice(products, Keywords("dieselB7")),
             dieselB20  |-> findPrice(products, Keywords("dieselB20")),
             updatedAt  |-> IF Truthy(bangchakData, "LastUpdate")
                            THEN ProviderText(bangchakData.LastUpdate)
                            ELSE ISOString(t)])

getFallbackPrices(t) ==
    [gasoline95 |-> [price |-> 38420, change |-> 0 - 200],
     gasoline91 |-> [price |-> 35670, change |-> 150],
     gasohol95  |-> [price |-> 36890, change |-> 0],
     gasohol91  |-> [price |-> 34120, change |-> 0 - 300],
     e20        |-> [price |-> 32550, change |-> 0 - 250],
     e85        |-> [price |-> 28900, change |-> 100],
     dieselB7   |-> [price |-> 32440, change |-> 0 - 180],
     dieselB20  |-> [price |-> 31890, change |-> 0 - 220],
     updatedAt  |-> ISOString(t)]

---------------------------------------------------------------------------
(* getBrandComparison: the generated view *)

\* adjustPrice with toFixed(1)
adjustPriceOneDecimal(basePrice, adjustment) ==
    ((basePrice + adjustment + 50) \div 100) * 100

adjustPrice(basePrice, adjustment) == toFixed2(basePrice + adjustment)

BrandData(currentPrices) ==
    [gasoline |-> <<
        [brand |-> "Bangchak",
         g95 |-> currentPrices.gasoline95.price,
         g91 |-> currentPrices.gasoline91.price],
        [brand |-> "PTT",
         g95 |-> adjustPrice(currentPrices.gasoline95.price, 50),
         g91 |-> adjustPrice(currentPrices.gasoline91.price, 50)],
        [brand |-> "Shell",
         g95 |-> adjustPrice(currentPrices.gasoline95.price, 80),
         g91 |-> adjustPrice(currentPrices.gasoline91.price, 80)],
        [brand |-> "Esso",
         g95 |-> adjustPrice(currentPrices.gasoline95.price, 60),
         g91 |-> adjustPrice(currentPrices.gasoline91.price, 60)],
        [brand |-> "Caltex",
         g95 |-> adjustPrice(currentPrices.gasoline95.price, 40),
         g91 |-> adjustPrice(currentPrices.gasoline91.price, 40)] >>,
     gasohol |-> <<
        [brand |-> "Bangchak",
         gh95 |-> currentPrices.gasohol95.price,
         gh91 |-> currentPrices.gasohol91.price,
         e20  |-> currentPrices.e20.price],
        [brand |-> "PTT",
         gh95 |-> adjustPrice(currentPrices.gasohol95.price, 50),
         gh91 |-> adjustPrice(currentPrices.gasohol91.price, 50),
         e20  |-> adjustPrice(currentPrices.e20.price, 40)],
        [brand |-> "Shell",
         gh95 |-> adjustPrice(currentPrices.gasohol95.price, 70),
         gh91 |-> adjustPrice(currentPrices.gasohol91.price, 70),
         e20  |-> adjustPrice(currentPrices.e20.price, 60)],
        [brand |-> "Esso",
         gh95 |-> adjustPrice(currentPrices.gasohol95.price, 60),
         gh91 |-> adjustPrice(currentPrices.gasohol91.price, 60),
         e20  |-> adjustPrice(currentPrices.e20.price, 50)] >>,
     diesel |-> <<
        [brand |-> "Bangchak",
         b7  |-> currentPrices.dieselB7.price,
         b20 |-> currentPrices.dieselB20.price],
        [brand |-> "PTT",
         b7  |-> adjustPrice(currentPrices.dieselB7.price, 50),
         b20 |-> adjustPrice(currentPrices.dieselB20.price, 50)],
        [brand |-> "Shell",
         b7  |-> adjustPrice(currentPrices.dieselB7.price, 80),
         b20 |-> adjustPrice(currentPrices.dieselB20.price, 80)],
        [brand |-> "Esso",
         b7  |-> adjustPrice(currentPrices.dieselB7.price, 60),
         b20 |-> adjustPrice(currentPrices.dieselB20.price, 60)] >>]

---------------------------------------------------------------------------
(* Math.random *)

Seeds == 0..(NumSeeds - 1)

RandomLevels == <<0, 250, 500, 750>>

\* the k-th draw (k = 0, 1, ...) of the stream in state `seed`, in
\* thousandths of [0, 1)
Random(seed, k) ==
    RandomLevels[((seed * (k + 1) + k * k + k \div 3) % Len(RandomLevels)) + 1]

\* (Math.random() - 0.5) * scale, with scale in thousandths
Centered(seed, k, scale) == ((Random(seed, k) - 500) * scale) \div 1000

---------------------------------------------------------------------------
(* getHistoricalPrices: the generated view *)

\* the body of the for loop of generateRealisticTrend from step i on; k0 is
\* the number of draws made before the call
RECURSIVE TrendLoop(_, _, _, _, _)
TrendLoop(i, price, volatility, seed, k0) ==
    IF i >= HISTORY_DAYS THEN <<>>
    ELSE LET change == Centered(seed, k0 + i, volatility)
             trend  == (0 - 3) * (HISTORY_DAYS - i)
             next   == price + change + trend
         IN  <<toFixed2(next)>> \o TrendLoop(i + 1, next, volatility, seed, k0)

\* generateRealisticTrend without `prices[29] = currentPrice`
generateRealisticTrendNoOverwrite(currentPrice, volatility, seed, k0) ==
    TrendLoop(0, currentPrice, volatility, seed, k0)

generateRealisticTrend(currentPrice, volatility, seed, k0) ==
    [TrendLoop(0, currentPrice, volatility, seed, k0) EXCEPT ![HISTORY_DAYS] = currentPrice]

\* the calendar days the labels name, oldest first: today - 29, ..., today
Labels(t) ==
    [j \in 1..HISTORY_DAYS |-> (t \div 86400) - (HISTORY_DAYS - j)]

HistoricalData(currentPrices, t, seed) ==
    [labels     |-> Labels(t),
     gasoline95 |-> generateRealisticTrend(currentPrices.gasoline95.price, 500, seed, 0),
     gasohol95  |-> generateRealisticTrend(currentPrices.gasohol95.price, 400, seed, HISTORY_DAYS),
     dieselB7   |-> generateRealisticTrend(currentPrices.dieselB7.price, 300, seed, 2 * HISTORY_DAYS)]

---------------------------------------------------------------------------
(* getWorldPrices: the generated view *)

FallbackExchangeQuote == [price |-> 34850, change |-> 0]

\* the value fetchExchangeRate resolves to when the provider answered with
\* `rate`: <<quote>>; <<>> stands for null
ExchangeQuote(rate, seed) ==
    <<[price |-> toFixed2(rate), change |-> Centered(seed, 0, 200)]>>

RoundQuote(q) == [price |-> toFixed2(q.price), change |-> toFixed2(q.change)]

\* worldData after the rounding pass; k0 draws were made by fetchExchangeRate
WorldData(exchangeRate, seed) ==
    LET k0 == Len(exchangeRate)
    IN  [wti   |-> RoundQuote([price  |-> 75420 + Centered(seed, k0, 5000),
                               change |-> Centered(seed, k0 + 1, 3000)]),
         brent |-> RoundQuote([price  |-> 79150 + Centered(seed, k0 + 2, 5000),
                               change |-> Centered(seed, k0 + 3, 3000)]),
         dubai |-> RoundQuote([price  |-> 77800 + Centered(seed, k0 + 4, 5000),
                               change |-> Centered(seed, k0 + 5, 3000)]),
         thb   |-> RoundQuote(IF exchangeRate # <<>> THEN exchangeRate[1]
                              ELSE FallbackExchangeQuote)]

getFallbackWorldPrices ==
    [wti   |-> [price |-> 75420, change |-> 1200],
     brent |-> [price |-> 79150, change |-> 800],
     dubai |-> [price |-> 77800, change |-> 0 - 500],
     thb   |-> [price |-> 34850, change |-> 0]]

---------------------------------------------------------------------------
(* What the two providers can answer *)

Txt_38_42 == <<"3", "8", ".", "4", "2">>
Txt_39_10 == <<"3", "9", ".", "1", "0">>
Txt_37_15 == <<"3", "7", ".", "1", "5">>
Txt_30_94 == <<"3", "0", ".", "9", "4">>
Txt_31_20 == <<"3", "1", ".", "2", "0">>
Txt_29_995 == <<"2", "9", ".", "9", "9", "5">>
Txt_41_5_THB == <<" ", "4", "1", ".", "5", " ", "T", "H", "B">>
Txt_minus_0_20 == <<"-", "0", ".", "2", "0">>
Txt_plus_0_30 == <<"+", "0", ".", "3", "0">>
Txt_x == <<"x">>
Txt_date == <<"0", "5", "/", "1", "1">>

Name_HiPremium97 ==
    <<"H", "i", " ", "P", "r", "e", "m", "i", "u", "m", " ", "9", "7", " ",
      "G", "a", "s", "o", "h", "o", "l", " ", "9", "5">>
Name_GASOHOL95 ==
    <<"G", "A", "S", "O", "H", "O", "L", " ", "9", "5", " ", "S", " ", "E", "V", "O">>
Name_GasoholE20 ==
    <<"G", "a", "s", "o", "h", "o", "l", " ", "E", "2", "0", " ", "S", " ", "E", "V", "O">>
Name_HiDieselB20 ==
    <<"H", "i", " ", "D", "i", "e", "s", "e", "l", " ", "B", "2", "0", " ", "S">>
Name_HiPremiumDiesel ==
    <<"H", "i", " ", "P", "r", "e", "m", "i", "u", "m", " ", "D", "i", "e", "s", "e", "l",
      " ", "S", " ", "B", "7">>
Name_HiDiesel == <<"H", "i", " ", "D", "i", "e", "s", "e", "l", " ", "S">>
NameTH_Benzin97 ==
    <<"U+0E40", "U+0E1A", "U+0E19", "U+0E0B", "U+0E34", "U+0E19", " ", "9", "7">>
NameTH_DiselB7 ==
    <<"U+0E14", "U+0E35", "U+0E40", "U+0E0B", "U+0E25", " ", "B", "7">>
NameTH_e20 == <<"e", "2", "0">>

\* records of the provider's Data list: {NameEN, NameTH, Today, Diff}, any
\* of which may be missing
RecHiPremium ==
    [NameEN |-> Name_HiPremium97, NameTH |-> <<>>, Today |-> Txt_38_42, Diff |-> Txt_minus_0_20]
RecGasohol95 ==
    [NameEN |-> Name_GASOHOL95, Today |-> Txt_37_15, Diff |-> Txt_plus_0_30]
RecBenzinThai ==
    [NameTH |-> NameTH_Benzin97, Today |-> Txt_x]
RecDieselThai ==
    [NameEN |-> Name_HiPremiumDiesel, NameTH |-> NameTH_DiselB7,
     Today |-> Txt_41_5_THB, Diff |-> Txt_x]
RecDieselB20 ==
    [NameEN |-> Name_HiDieselB20, NameTH |-> NameTH_e20, Today |-> Txt_29_995, Diff |-> Txt_minus_0_20]
RecE20 ==
    [NameEN |-> Name_GasoholE20, Today |-> Txt_30_94, Diff |-> <<>>]
RecHiDiesel ==
    [NameEN |-> Name_HiDiesel, NameTH |-> <<>>, Today |-> Txt_31_20, Diff |-> Txt_plus_0_30]

RecordPool ==
    {RecHiPremium, RecGasohol95, RecBenzinThai, RecDieselThai, RecDieselB20, RecE20,
     RecHiDiesel}

\* the documents the Bangchak API serves in the server runs: the price of
\* the premium grade differs between the two
PayloadA ==
    [Data |-> <<RecHiPremium, RecDieselThai, RecE20>>, LastUpdate |-> Txt_date]
PayloadB ==
    [Data |-> <<[RecHiPremium EXCEPT !.Today = Txt_39_10], RecDieselThai, RecE20>>,
     LastUpdate |-> Txt_date]
Payloads == {PayloadA, PayloadB}

\* a 200 answer whose JSON has no Data array
ErrorDocument == [LastUpdate |-> Txt_date]

\* how `await fetch(BANGCHAK_API_URL)` and `await response.json()` can end
FetchOutcomes(current) ==
    {[kind |-> "json", doc |-> current],
     [kind |-> "json", doc |-> ErrorDocument],
     [kind |-> "status", doc |-> ErrorDocument],
     [kind |-> "network", doc |-> ErrorDocument]}

\* data.rates.THB of the exchange-rate provider, in thousandths
FxRates == {36427}

---------------------------------------------------------------------------
(* Cache helpers *)

KeyOf(ep) ==
    CASE ep = "/prices"       -> "current_prices"
      [] ep = "/brands"       -> "brand_comparison"
      [] ep = "/history"      -> "historical_prices"
      [] ep = "/world-prices" -> "world_prices"

\* the maxAge each caller hands to getFromCache
ReadMaxAge(cacheKey) ==
    CASE cacheKey = "current_prices"    -> CACHE_DURATION_SECONDS
      [] cacheKey = "brand_comparison"  -> CACHE_DURATION_SECONDS
      [] cacheKey = "historical_prices" -> HISTORY_MAX_AGE
      [] cacheKey = "world_prices"      -> WORLD_MAX_AGE

\* the ttl each caller hands to saveToCache
WriteTtl(cacheKey) ==
    CASE cacheKey = "current_prices"    -> CACHE_DURATION_SECONDS
      [] cacheKey = "brand_comparison"  -> CACHE_DURATION_SECONDS
      [] cacheKey = "historical_prices" -> HISTORY_TTL
      [] cacheKey = "world_prices"      -> WORLD_TTL

\* the age test with `<=`
FreshInclusive(item, maxAge, t) == (t - item.timestamp) <= maxAge

\* the age test of getFromCache
Fresh(item, maxAge, t) == (t - item.timestamp) < maxAge

\* getFromCache: <<data>>, or <<>> for null
getFromCache(cacheKey, maxAge, t) ==
    IF ~storeUp THEN <<>>
    ELSE IF store[cacheKey] # <<>> /\ Fresh(store[cacheKey][1], maxAge, t)
         THEN <<store[cacheKey][1].data>>
         ELSE <<>>

\* the Item of the PutCommand saveToCache builds at time t
Item(cacheKey, data, t, ttl) ==
    [cacheKey |-> cacheKey, data |-> data, timestamp |-> t, ttl |-> t + ttl]

\* a write that updates the data of an existing item in place, keeping the
\* timestamp and ttl it was first stored with
saveToCachePatch(item) ==
    IF ~storeUp THEN store
    ELSE IF store[item.cacheKey] = <<>>
         THEN [store EXCEPT ![item.cacheKey] = <<item>>]
         ELSE [store EXCEPT ![item.cacheKey] =
                   <<[item EXCEPT !.timestamp = store[item.cacheKey][1].timestamp,
                                  !.ttl = store[item.cacheKey][1].ttl]>>]

\* the table after the PutCommand resolved (or was rejected)
saveToCache(item) ==
    IF storeUp THEN [store EXCEPT ![item.cacheKey] = <<item>>] ELSE store

---------------------------------------------------------------------------
(* Requests *)

Slots == 1..NumReq

\* the locals of one request, across its handler and the functions it awaits
IdleReq ==
    [ep       |-> "none",   \* the route
     pc       |-> "idle",   \* the await the request is suspended at
     hit      |-> FALSE,    \* the handler's own key was served from the cache
     raw      |-> <<>>,     \* bangchakData
     cp       |-> <<>>,     \* what getCurrentPrices returned
     cpSource |-> "none",   \* the return statement of getCurrentPrices taken
     fx       |-> "none",   \* exchangeRate: "live" or "absent"
     put      |-> <<>>,     \* the PutCommand in flight
     body     |-> <<>>,     \* what the handler serialises
     status   |-> 0,        \* the HTTP status of the response
     fetches  |-> 0,        \* calls of fetch(BANGCHAK_API_URL)
     puts     |-> 0]        \* PutCommands sent

\* the handler's try/catch: res.json(data) or res.status(500).json(...)
Respond(q, result) ==
    [q EXCEPT !.pc = "done",
              !.status = IF result.threw THEN 500 ELSE 200,
              !.body = result.value]

\* saveToCache up to its await: the Item is built and the command sent
SendPut(q, cacheKey, data, t) ==
    [q EXCEPT !.put = <<Item(cacheKey, data, t, WriteTtl(cacheKey))>>,
              !.puts = @ + 1]

\* a catch block that rethrows
OnUpstreamErrorRethrow(t) == Throw

\* the catch block of getCurrentPrices
OnUpstreamError(t) == Return(getFallbackPrices(t))

\* lines 140-155: the response, its JSON and the transform
Fetched(outcome, t) ==
    IF outcome.kind = "json" THEN transformBangchakData(outcome.doc, t) ELSE Throw

\* getBrandComparison and getHistoricalPrices from `await getCurrentPrices()`
\* to their `await saveToCache(...)`
Generate(q, result, t, seed) ==
    IF result.threw THEN Respond(q, Throw)
    ELSE LET currentPrices == result.value[1]
             data == IF q.ep = "/brands"
                     THEN BrandData(currentPrices)
                     ELSE HistoricalData(currentPrices, t, seed)
         IN  [SendPut(q, KeyOf(q.ep), data, t) EXCEPT
                 !.pc = "save", !.cp = result.value, !.body = <<data>>]

\* the caller of getCurrentPrices resumes with its result
AfterCurrentPrices(q, result, t, seed) ==
    IF q.ep = "/prices"
    THEN Respond([q EXCEPT !.cp = result.value], result)
    ELSE Generate(q, result, t, seed)

\* a catch block that saves the fallback before it returns it
CatchBlockCaching(q, t, seed) ==
    [SendPut([q EXCEPT !.cpSource = "fallback"], "current_prices", getFallbackPrices(t), t)
        EXCEPT !.pc = "cp_save", !.cp = <<getFallbackPrices(t)>>]

\* the catch block of getCurrentPrices runs in request q, and its caller
\* resumes with the fallback
CatchBlock(q, t, seed) ==
    AfterCurrentPrices([q EXCEPT !.cpSource = "fallback"], OnUpstreamError(t), t, seed)

\* a saveToCache whose failure reaches the catch block of getCurrentPrices
CpSavedRethrow(q, t, seed) ==
    IF storeUp
    THEN AfterCurrentPrices([q EXCEPT !.put = <<>>], Return(q.cp[1]), t, seed)
    ELSE CatchBlock([q EXCEPT !.put = <<>>], t, seed)

\* `await saveToCache(cacheKey, formattedData)` is over, whatever became of
\* the write: `return formattedData`
CpSaved(q, t, seed) ==
    AfterCurrentPrices([q EXCEPT !.put = <<>>], Return(q.cp[1]), t, seed)

\* getCurrentPrices after its cache lookup returned `cached`
CurrentPricesLookup(q, cached, t, seed) ==
    IF cached # <<>>
    THEN AfterCurrentPrices([q EXCEPT !.cpSource = "cache"], Return(cached[1]), t, seed)
    ELSE [q EXCEPT !.pc = "fetch", !.fetches = @ + 1]

\* a generator that never looks at what its getFromCache returned
OwnLookupNoCache(q, cached, t, seed) ==
    IF q.ep = "/prices" THEN CurrentPricesLookup(q, <<>>, t, seed)
    ELSE IF q.ep = "/world-prices" THEN [q EXCEPT !.pc = "fx"]
    ELSE [q EXCEPT !.pc = "cp_read"]

\* the generator of route ep after the getFromCache of its own key
\* returned `cached`
OwnLookup(q, cached, t, seed) ==
    IF q.ep = "/prices" THEN
        CurrentPricesLookup([q EXCEPT !.hit = (cached # <<>>)], cached, t, seed)
    ELSE IF cached # <<>> THEN
        Respond([q EXCEPT !.hit = TRUE], Return(cached[1]))
    ELSE IF q.ep = "/world-prices" THEN [q EXCEPT !.pc = "fx"]
    ELSE [q EXCEPT !.pc = "cp_read"]

\* the draws a request can see: only two views use Math.random
SeedsOf(ep) == IF ep \in {"/history", "/world-prices"} THEN Seeds ELSE {0}

\* request r runs on to q: suspended at its next await, or answered, when
\* its locals are gone and the response is on the wire
Settle(r, q) ==
    IF q.pc = "done"
    THEN /\ req' = [req EXCEPT ![r] = IdleReq]
         /\ resp' = <<q>>
    ELSE /\ req' = [req EXCEPT ![r] = q]
         /\ resp' = resp

---------------------------------------------------------------------------
(* Actions *)

\* app.get(route): the handler calls its generator, whose getFromCache of
\* its own key resolves
StartEp(r, ep) ==
    /\ started < MaxRequests
    /\ req[r].pc = "idle"
    /\ LET cacheKey == KeyOf(ep)
           cached == getFromCache(cacheKey, ReadMaxAge(cacheKey), now)
       IN  \E seed \in SeedsOf(ep) :
             Settle(r, OwnLookup([IdleReq EXCEPT !.ep = ep], cached, now, seed))
    /\ started' = started + 1
    /\ UNCHANGED <<now, ticks, upstream, storeUp, store>>

Start(r) == \E ep \in Endpoints : StartEp(r, ep)

\* the getFromCache of a nested getCurrentPrices resolves
CpRead(r) ==
    /\ req[r].pc = "cp_read"
    /\ LET cached == getFromCache("current_prices", ReadMaxAge("current_prices"), now)
       IN  \E seed \in SeedsOf(req[r].ep) :
             Settle(r, CurrentPricesLookup(req[r], cached, now, seed))
    /\ UNCHANGED <<now, ticks, upstream, storeUp, store, started>>

\* fetch(BANGCHAK_API_URL) and response.json() resolve or reject
Fetch(r) ==
    /\ req[r].pc = "fetch"
    /\ \E outcome \in FetchOutcomes(upstream), seed \in SeedsOf(req[r].ep) :
         LET q == [req[r] EXCEPT
                      !.raw = IF outcome.kind = "json" THEN <<outcome.doc>> ELSE <<>>]
             formatted == Fetched(outcome, now)
         IN  Settle(r,
               IF formatted.threw
               THEN CatchBlock(q, now, seed)
               ELSE [SendPut(q, "current_prices", formatted.value[1], now) EXCEPT
                        !.pc = "cp_save", !.cp = formatted.value, !.cpSource = "live"])
    /\ UNCHANGED <<now, ticks, upstream, storeUp, store, started>>

\* the PutCommand of getCurrentPrices resolves or rejects
CpSave(r) ==
    /\ req[r].pc = "cp_save"
    /\ store' = saveToCache(req[r].put[1])
    /\ \E seed \in SeedsOf(req[r].ep) :
         Settle(r, CpSaved(req[r], now, seed))
    /\ UNCHANGED <<now, ticks, upstream, storeUp, started>>

\* fetchExchangeRate resolves: a quote, or null on any failure
FetchExchange(r) ==
    /\ req[r].pc = "fx"
    /\ \E seed \in Seeds :
       \E exchangeRate \in {<<>>} \cup {ExchangeQuote(rate, seed) : rate \in FxRates} :
         LET worldData == WorldData(exchangeRate, seed)
             q == [req[r] EXCEPT !.fx = IF exchangeRate = <<>> THEN "absent" ELSE "live"]
         IN  Settle(r, [SendPut(q, "world_prices", worldData, now) EXCEPT
                           !.pc = "save", !.body = <<worldData>>])
    /\ UNCHANGED <<now, ticks, upstream, storeUp, store, started>>

\* the PutCommand of a derived view resolves or rejects; the handler answers
Save(r) ==
    /\ req[r].pc = "save"
    /\ store' = saveToCache(req[r].put[1])
    /\ Settle(r, Respond([req[r] EXCEPT !.put = <<>>], Return(req[r].body[1])))
    /\ UNCHANGED <<now, ticks, upstream, storeUp, started>>

\* time passes
TickSteps ==
    {CACHE_DURATION_SECONDS - 1, CACHE_DURATION_SECONDS, HISTORY_MAX_AGE - 1, HISTORY_MAX_AGE}

Tick ==
    /\ ticks < MaxTicks
    /\ \E d \in TickSteps : now' = now + d
    /\ ticks' = ticks + 1
    /\ UNCHANGED <<upstream, storeUp, store, req, resp, started>>

\* the provider publishes other prices
UpstreamChange ==
    /\ \E doc \in Payloads \ {upstream} : upstream' = doc
    /\ UNCHANGED <<now, ticks, storeUp, store, req, resp, started>>

\* DynamoDB becomes unreachable, or reachable again
StoreFlip ==
    /\ storeUp' = ~storeUp
    /\ UNCHANGED <<now, ticks, upstream, store, req, resp, started>>

---------------------------------------------------------------------------
(* Specifications *)

\* the server with a reachable table, while time passes and prices change
Init ==
    /\ now = 0
    /\ ticks = 0
    /\ upstream \in Payloads
    /\ storeUp = TRUE
    /\ store = [k \in Keys |-> <<>>]
    /\ req = [r \in Slots |-> IdleReq]
    /\ resp = <<>>
    /\ started = 0

Next ==
    \/ \E r \in Slots : Start(r)
    \/ \E r \in Slots : CpRead(r)
    \/ \E r \in Slots : Fetch(r)
    \/ \E r \in Slots : CpSave(r)
    \/ \E r \in Slots : FetchExchange(r)
    \/ \E r \in Slots : Save(r)
    \/ Tick
    \/ UpstreamChange

Spec == Init /\ [][Next]_vars

\* the server while the table becomes unreachable and reachable again, and
\* time passes
InitOutage ==
    /\ now = 0
    /\ ticks = 0
    /\ upstream = PayloadA
    /\ storeUp \in BOOLEAN
    /\ store = [k \in Keys |-> <<>>]
    /\ req = [r \in Slots |-> IdleReq]
    /\ resp = <<>>
    /\ started = 0

NextOutage ==
    \/ \E r \in Slots : Start(r)
    \/ \E r \in Slots : CpRead(r)
    \/ \E r \in Slots : Fetch(r)
    \/ \E r \in Slots : CpSave(r)
    \/ \E r \in Slots : FetchExchange(r)
    \/ \E r \in Slots : Save(r)
    \/ StoreFlip
    \/ Tick

SpecOutage == InitOutage /\ [][NextOutage]_vars

\* the provider's documents over the record pool, Data lists of bounded length
RECURSIVE ListsUpTo(_, _)
ListsUpTo(S, n) ==
    IF n = 0 THEN {<<>>}
    ELSE LET shorter == ListsUpTo(S, n - 1)
         IN  shorter \cup {Append(l, x) : l \in shorter, x \in S}

PurePayloads == {[Data |-> l] : l \in ListsUpTo(RecordPool, MaxRecords)}

\* one request to /prices or /brands, over every document
InitPure ==
    /\ now = 0
    /\ ticks = 0
    /\ upstream \in PurePayloads
    /\ storeUp = TRUE
    /\ store = [k \in Keys |-> <<>>]
    /\ req = [r \in Slots |-> IdleReq]
    /\ resp = <<>>
    /\ started = 0

NextPure ==
    \/ started < 1 /\ StartEp(1, "/prices")
    \/ started < 1 /\ StartEp(1, "/brands")
    \/ CpRead(1)
    \/ Fetch(1)
    \/ CpSave(1)
    \/ Save(1)

SpecPure == InitPure /\ [][NextPure]_vars

---------------------------------------------------------------------------
(* Properties *)

\* the requests in flight and the response sent last
InFlight == {req[r] : r \in {x \in Slots : req[x].pc # "idle"}}
Answers == {resp[i] : i \in 1..Len(resp)}

PriceGrades == Grades

\* the selection rule of the transformer, stated on its own: the least
\* alias that any record matches, then the least record matching it
MatchesAt(text, keyword, fold) ==
    \E i \in 0..(Len(text) - Len(keyword)) :
        \A j \in 1..Len(keyword) :
            IF fold THEN LowerChar(text[i + j]) = LowerChar(keyword[j])
            ELSE text[i + j] = keyword[j]

RuleMatches(p, keyword) ==
    \/ "NameEN" \in DOMAIN p /\ p.NameEN # <<>> /\ MatchesAt(p.NameEN, keyword, TRUE)
    \/ "NameTH" \in DOMAIN p /\ p.NameTH # <<>> /\ MatchesAt(p.NameTH, keyword, FALSE)

Least(S) == CHOOSE x \in S : \A y \in S : x <= y

ParsedOrZero(p, f) ==
    IF f \in DOMAIN p /\ ~parseFloat(p[f]).nan THEN parseFloat(p[f]).val ELSE 0

RuleQuote(products, keywords) ==
    LET matched(k) == {j \in 1..Len(products) : RuleMatches(products[j], keywords[k])}
        live == {k \in 1..Len(keywords) : matched(k) # {}}
    IN  IF live = {} THEN [price |-> 0, change |-> 0]
        ELSE LET p == products[Least(matched(Least(live)))]
             IN  [price |-> ParsedOrZero(p, "Today"), change |-> ParsedOrZero(p, "Diff")]

\* C7: for every document with a Data list the transform returns all eight
\* grades without raising, each grade's quote taken from the record the
\* rule selects (aliases in priority order, then records in list order),
\* and {price: 0, change: 0} for a grade no alias of which matches.
C7_TransformRule ==
    /\ \A q \in InFlight :
          q.pc = "cp_save" =>
             /\ "Data" \in DOMAIN q.raw[1]
             /\ \A g \in PriceGrades :
                   q.cp[1][g] = RuleQuote(q.raw[1].Data, Keywords(g))
    /\ \A q \in InFlight \cup Answers :
          (q.raw # <<>> /\ "Data" \in DOMAIN q.raw[1]) => q.cpSource = "live"

\* a later alias's record precedes the record of the first alias: the
\* first alias wins, and its record gives the price
C7_Witness ==
    \E q \in InFlight :
        /\ q.pc = "cp_save"
        /\ q.raw[1].Data = <<RecBenzinThai, RecHiPremium>>
        /\ q.cp[1].gasoline95 = [price |-> 38420, change |-> 0 - 200]
        /\ q.cp[1].dieselB7 = [price |-> 0, change |-> 0]

\* the prices of a CurrentPrices are whole hundredths
TwoDecimals(currentPrices) ==
    \A g \in PriceGrades : currentPrices[g].price % 10 = 0

\* a freshly generated brand comparison, with the CurrentPrices it was
\* generated from
FreshBrands ==
    {q \in InFlight \cup Answers :
        q.ep = "/brands" /\ ~q.hit /\ q.body # <<>> /\ q.cp # <<>>}

\* C8: every freshly generated brand price is the CurrentPrices price plus
\* the brand's fixed offset (gasoline: PTT +0.05, Shell +0.08, Esso +0.06,
\* Caltex +0.04), the Bangchak record is the CurrentPrices price itself, and
\* 38.42 gives 38.47, 38.50, 38.48 and 38.46.
C8_BrandOffsets ==
    \A q \in FreshBrands :
        LET cur == q.cp[1]
            gasoline == q.body[1].gasoline
            offset == <<0, 50, 80, 60, 40>>
            brand == <<"Bangchak", "PTT", "Shell", "Esso", "Caltex">>
        IN  TwoDecimals(cur) =>
              /\ Len(gasoline) = 5
              /\ \A i \in 1..5 :
                    /\ gasoline[i].brand = brand[i]
                    /\ gasoline[i].g95 = cur.gasoline95.price + offset[i]
                    /\ gasoline[i].g91 = cur.gasoline91.price + offset[i]
              /\ q.body[1].gasohol[1].gh95 = cur.gasohol95.price
              /\ q.body[1].gasohol[1].gh91 = cur.gasohol91.price
              /\ q.body[1].gasohol[1].e20 = cur.e20.price
              /\ q.body[1].diesel[1].b7 = cur.dieselB7.price
              /\ q.body[1].diesel[1].b20 = cur.dieselB20.price
              /\ cur.gasoline95.price = 38420 =>
                    <<gasoline[2].g95, gasoline[3].g95, gasoline[4].g95, gasoline[5].g95>>
                       = <<38470, 38500, 38480, 38460>>

\* the example of the claim, from a live document
C8_Witness ==
    \E q \in FreshBrands :
        /\ q.cpSource = "live"
        /\ TwoDecimals(q.cp[1])
        /\ q.cp[1].gasoline95.price = 38420
        /\ q.body[1].gasoline[2].g95 = 38470
        /\ q.body[1].gasoline[5].g91 = 40

\* the request a step of the handlers starts, as that step leaves it: the
\* slot it now occupies, or the response when it was answered at once
StartStep == started' = started + 1
StartOutcome ==
    IF req' = req THEN resp'[1]
    ELSE req'[CHOOSE r \in Slots : req'[r] # req[r]]

\* the entry under cacheKey is within the lifetime it was written with
Valid(cacheKey) ==
    store[cacheKey] # <<>> /\ now < store[cacheKey][1].ttl

\* the upstream call of request q failed: no document, or one without Data
UpstreamFailed(q) == q.raw = <<>> \/ InvalidStructure(q.raw[1])

FallbackPrice ==
    [gasoline95 |-> 38420, gasoline91 |-> 35670, gasohol95 |-> 36890,
     gasohol91 |-> 34120, e20 |-> 32550, e85 |-> 28900,
     dieselB7 |-> 32440, dieselB20 |-> 31890]

\* C6: every /prices response is a 200, and one that found no valid cache
\* entry and whose upstream call failed (non-OK status, network error, or a
\* document without Data) carries the fallback snapshot, its price fields
\* equal to the hardcoded constants.
C6_FallbackNot500 ==
    \A q \in Answers :
        q.ep = "/prices" =>
           /\ q.status = 200
           /\ (~q.hit /\ UpstreamFailed(q)) =>
                 /\ q.cpSource = "fallback"
                 /\ \A g \in PriceGrades : q.body[1][g].price = FallbackPrice[g]

\* a 200 document without Data was answered with the fallback
C6_Witness ==
    \E q \in Answers :
        /\ q.ep = "/prices" /\ ~q.hit /\ q.fetches = 1
        /\ q.raw = <<ErrorDocument>>
        /\ q.status = 200
        /\ q.body[1].gasoline95.price = 38420

\* a /prices request leaves its fetch
LeavesFetch(r) ==
    req[r].ep = "/prices" /\ req[r].pc = "fetch" /\ req'[r] # req[r]

\* C1: a /prices request whose upstream call fails answers with the
\* fallback snapshot and sends no put, and the step leaves the store as it
\* was; the 'current_prices' entry is written only by the put of a request
\* whose upstream call succeeded; and every /prices request that finds no
\* valid 'current_prices' entry issues an upstream fetch of its own.
C1_FallbackNeverCached ==
    [][/\ \A r \in Slots :
            LeavesFetch(r) =>
               \/ /\ req'[r].pc = "cp_save"
                  /\ req'[r].cpSource = "live"
                  /\ ~UpstreamFailed(req'[r])
               \/ /\ req'[r].pc = "idle"
                  /\ UpstreamFailed(resp'[1])
                  /\ resp'[1].cpSource = "fallback"
                  /\ resp'[1].status = 200
                  /\ \A g \in PriceGrades : resp'[1].body[1][g].price = FallbackPrice[g]
                  /\ resp'[1].puts = 0
                  /\ store' = store
       /\ store'["current_prices"] # store["current_prices"] =>
            \E r \in Slots :
                /\ req[r].pc = "cp_save"
                /\ req[r].cpSource = "live"
                /\ ~UpstreamFailed(req[r])
                /\ store'["current_prices"] = req[r].put
       /\ (StartStep /\ StartOutcome.ep = "/prices" /\ ~Valid("current_prices")) =>
            /\ StartOutcome.pc = "fetch"
            /\ StartOutcome.fetches = 1
      ]_vars

\* after a fallback answer the entry is still absent and the next /prices
\* request is at its own fetch
C1_Witness ==
    /\ resp # <<>>
    /\ resp[1].ep = "/prices" /\ resp[1].cpSource = "fallback" /\ resp[1].puts = 0
    /\ store["current_prices"] = <<>>
    /\ \E r \in Slots :
          req[r].ep = "/prices" /\ req[r].pc = "fetch" /\ req[r].fetches = 1

\* C4: a read of key k by a handler is a hit exactly when an entry exists
\* and fewer seconds than the ttl it was written with have passed since it
\* was stored, and a hit returns the stored payload unchanged; every write
\* stamps the entry with the time its item was built and with a ttl equal
\* to the maxAge the readers of that key use.
C4_TimeBasedValidity ==
    [][/\ StartStep =>
            LET q == StartOutcome
                k == KeyOf(q.ep)
            IN  /\ q.hit = Valid(k)
                /\ q.hit => (q.pc = "done" /\ q.body = <<store[k][1].data>>)
       /\ \A r \in Slots :
            (req[r].pc = "cp_read" /\ req'[r] # req[r]) =>
               /\ (req'[r].cpSource = "cache") = Valid("current_prices")
               /\ Valid("current_prices") =>
                     req'[r].cp = <<store["current_prices"][1].data>>
       /\ \A k \in Keys :
            store'[k] # store[k] =>
               /\ store'[k][1].timestamp <= now
               /\ store'[k][1].ttl - store'[k][1].timestamp = ReadMaxAge(k)
      ]_vars

\* a series served from the cache in the last second of its six hours
C4_Witness ==
    /\ resp # <<>>
    /\ resp[1].ep = "/history" /\ resp[1].hit
    /\ store["historical_prices"] # <<>>
    /\ resp[1].body = <<store["historical_prices"][1].data>>
    /\ now - store["historical_prices"][1].timestamp = HISTORY_MAX_AGE - 1

\* C2: no cache entry holds the fallback snapshot, a view computed from it,
\* the fallback world prices, or the fallback exchange quote.
C2_NoFallbackInCache ==
    /\ store["current_prices"] # <<>> =>
          LET item == store["current_prices"][1]
          IN  item.data # getFallbackPrices(item.timestamp)
    /\ store["brand_comparison"] # <<>> =>
          LET item == store["brand_comparison"][1]
          IN  item.data # BrandData(getFallbackPrices(item.timestamp))
    /\ store["historical_prices"] # <<>> =>
          LET item == store["historical_prices"][1]
          IN  \A seed \in Seeds :
                 item.data # HistoricalData(getFallbackPrices(item.timestamp),
                                            item.timestamp, seed)
    /\ store["world_prices"] # <<>> =>
          LET item == store["world_prices"][1]
          IN  /\ item.data # getFallbackWorldPrices
              /\ item.data.thb # FallbackExchangeQuote

TrendGrades == {"gasoline95", "gasohol95", "dieselB7"}

\* what a call of getCurrentPrices made now can return
CurrentPricesNow ==
    LET cached == getFromCache("current_prices", ReadMaxAge("current_prices"), now)
    IN  IF cached # <<>> THEN {cached[1]}
        ELSE {IF Fetched(o, now).threw THEN getFallbackPrices(now)
              ELSE Fetched(o, now).value[1] : o \in FetchOutcomes(upstream)}

\* C3 as claimed: every series /history returns, generated or served from
\* the cache, ends for each tracked grade at that grade's price in the
\* CurrentPrices that getCurrentPrices yields at the time of the request.
C3_EverySeriesEndsAtCurrent ==
    [][/\ (StartStep /\ StartOutcome.ep = "/history" /\ StartOutcome.hit) =>
            \E currentPrices \in CurrentPricesNow :
                \A g \in TrendGrades :
                    StartOutcome.body[1][g][HISTORY_DAYS] = currentPrices[g].price
       /\ \A r \in Slots :
            (req[r].ep = "/history" /\ req[r].pc = "save" /\ req'[r] # req[r]) =>
                \A g \in TrendGrades :
                    resp'[1].body[1][g][HISTORY_DAYS] = req[r].cp[1][g].price
      ]_vars

\* a freshly generated series, with the CurrentPrices it was generated from
FreshHistory ==
    {q \in InFlight \cup Answers :
        q.ep = "/history" /\ ~q.hit /\ q.body # <<>> /\ q.cp # <<>>}

\* C3 as amended: every series /history freshly generates has 30 values
\* per tracked grade, the last equal to that grade's price in the
\* CurrentPrices getCurrentPrices returned to the same invocation.
C3_FreshSeriesEndsAtCurrent ==
    \A q \in FreshHistory :
        \A g \in TrendGrades :
            /\ Len(q.body[1][g]) = HISTORY_DAYS
            /\ q.body[1][g][HISTORY_DAYS] = q.cp[1][g].price

\* a series from live prices whose walk ended elsewhere than the price
C3_Witness ==
    \E q \in FreshHistory :
        /\ q.cpSource = "live" /\ q.status = 200
        /\ q.body[1].gasoline95[HISTORY_DAYS] = 38420
        /\ q.body[1].gasoline95[HISTORY_DAYS - 1] # 38420

\* request r has a put in flight that no fallback value went into
LiveWriter(r) ==
    /\ req[r].put # <<>>
    /\ req[r].cpSource # "fallback"
    /\ req[r].fx # "absent"

\* C9 as claimed: when two requests for the same endpoint both missed the
\* same key and both have their write of it in flight, the two payloads are
\* equivalent, so the later write stores what the earlier one stored.
C9_ConcurrentWritesEquivalent ==
    \A r1, r2 \in Slots :
        (/\ r1 # r2
         /\ LiveWriter(r1) /\ LiveWriter(r2)
         /\ req[r1].ep = req[r2].ep
         /\ req[r1].put[1].cacheKey = req[r2].put[1].cacheKey)
        => req[r1].put[1].data = req[r2].put[1].data

\* C9 as amended: a key changes only by one request's write, which
\* replaces the entry by exactly the item that request built (payload,
\* timestamp and ttl of the same write, never a mixture) and leaves the
\* other keys alone; every request that missed answers with the payload it
\* wrote itself; and every derived view that missed sent its own write.
C9_LastWriterWins ==
    [][/\ \A k \in Keys :
            store'[k] # store[k] =>
               \E r \in Slots :
                   /\ req[r].pc \in {"cp_save", "save"}
                   /\ req[r].put # <<>> /\ req[r].put[1].cacheKey = k
                   /\ store'[k] = req[r].put
                   /\ \A other \in Keys \ {k} : store'[other] = store[other]
                   /\ req'[r].pc = "idle" => resp'[1].body = <<req[r].put[1].data>>
       /\ \A r \in Slots :
            (req[r].pc = "save" /\ req'[r] # req[r]) =>
               /\ resp'[1].body = <<req[r].put[1].data>>
               /\ resp'[1].puts >= 1
               /\ store'[KeyOf(req[r].ep)] = req[r].put
      ]_vars

\* two /history requests missed; the first wrote and answered, and the
\* second is about to overwrite the entry with a different series
C9_Witness ==
    \E r \in Slots :
        /\ req[r].ep = "/history" /\ req[r].pc = "save"
        /\ resp # <<>> /\ resp[1].ep = "/history" /\ ~resp[1].hit
        /\ store["historical_prices"] # <<>>
        /\ resp[1].body = <<store["historical_prices"][1].data>>
        /\ req[r].put[1].data # store["historical_prices"][1].data

\* the store is unreachable in this step
Outage == ~storeUp

\* C5: while the store is unreachable a /prices request treats its read as
\* a miss and fetches; its failed write changes nothing and the request
\* answers 200 with the transformed live document; every /prices response
\* is a 200 with all eight grades, and none carries the fallback snapshot
\* unless its upstream call failed.
C5_PricesSurviveOutage ==
    [][/\ (StartStep /\ Outage /\ StartOutcome.ep = "/prices") =>
            /\ StartOutcome.pc = "fetch"
            /\ StartOutcome.fetches = 1
       /\ \A r \in Slots :
            (req[r].ep = "/prices" /\ req[r].pc = "cp_save" /\ req'[r] # req[r] /\ Outage) =>
               /\ store' = store
               /\ resp'[1].status = 200
               /\ resp'[1].cpSource = "live"
               /\ resp'[1].body = <<transformBangchakData(req[r].raw[1], now).value[1]>>
       /\ \A i \in 1..Len(resp') :
            resp'[i].ep = "/prices" =>
               /\ resp'[i].status = 200
               /\ Grades \subseteq DOMAIN resp'[i].body[1]
               /\ resp'[i].cpSource = "fallback" => UpstreamFailed(resp'[i])
      ]_vars

\* a live answer whose read and write both failed: the entry is still absent
C5_Witness ==
    /\ ~storeUp
    /\ resp # <<>>
    /\ resp[1].ep = "/prices" /\ resp[1].status = 200
    /\ resp[1].cpSource = "live" /\ resp[1].puts = 1
    /\ store["current_prices"] = <<>>

FetchingEndpoints == {"/prices", "/brands", "/history"}

\* the fetch counters of every request, answered or in flight, after a step
NoSecondFetch ==
    /\ \A r \in Slots : req'[r].fetches <= 1
    /\ \A i \in 1..Len(resp') : resp'[i].fetches <= 1
    /\ \A r \in Slots :
          (req[r].pc = "fetch" /\ req'[r] # req[r]) =>
              (req'[r].pc # "fetch" /\ (req'[r].pc = "idle" \/ req'[r].fetches = 1))

\* C10 as claimed: a request to /prices, /brands or /history whose own key
\* holds a valid entry performs no fetch and no write and returns the
\* cached payload unchanged; no request fetches more than once.
C10_ValidEntryNoFetch ==
    [][/\ (StartStep /\ StartOutcome.ep \in FetchingEndpoints /\ Valid(KeyOf(StartOutcome.ep))) =>
            /\ StartOutcome.pc = "done"
            /\ StartOutcome.fetches = 0
            /\ StartOutcome.puts = 0
            /\ StartOutcome.body = <<store[KeyOf(StartOutcome.ep)][1].data>>
            /\ store' = store
       /\ NoSecondFetch
      ]_vars

\* C10 as amended: the same, for a request whose read of its own key the
\* store answers.
C10_ReadableEntryNoFetch ==
    [][/\ (/\ StartStep /\ StartOutcome.ep \in FetchingEndpoints
           /\ Valid(KeyOf(StartOutcome.ep)) /\ storeUp) =>
            /\ StartOutcome.pc = "done"
            /\ StartOutcome.fetches = 0
            /\ StartOutcome.puts = 0
            /\ StartOutcome.body = <<store[KeyOf(StartOutcome.ep)][1].data>>
            /\ store' = store
       /\ NoSecondFetch
      ]_vars

\* a brand comparison answered from the cache, nothing fetched or written
C10_Witness ==
    /\ storeUp
    /\ resp # <<>>
    /\ resp[1].ep = "/brands" /\ resp[1].hit
    /\ resp[1].fetches = 0 /\ resp[1].puts = 0
    /\ resp[1].body = <<store["brand_comparison"][1].data>>

=============================================================================
